---- MODULE Spec2Model ----
(***************************************************************************)
(* A model of src/myAssets.js: the token list cache (fetchTokenList), the  *)
(* balance normaliser (normalizeBalance), the per-network fetcher          *)
(* (fetchContractData) and the GET /api/liquidity-rates handler.           *)
(*                                                                         *)
(* A request runs as a chain of continuations; every `await` on an         *)
(* outbound call (RPC read, token-list fetch, body parse) is a point where *)
(* another request may run.  One action below is one such continuation:    *)
(* the code from one outbound await to the next.                           *)
(*                                                                         *)
(* Numbers.  ethers.BigNumber is arbitrary precision; the model keeps the  *)
(* arithmetic exact by drawing the liquidity index from the multiples of   *)
(* 10^27 / RayParts, for which floor(s * index / 10^27) is                 *)
(* (s * q) \div RayParts.  A value produced by normalizeBalance is the     *)
(* exact decimal  mant * 10^(-exp)  that formatUnits prints; the rounding  *)
(* of parseFloat to a double is not modelled.  The annual yield            *)
(* (liquidityRate, lines 142-143) is floating-point exponentiation and is  *)
(* left out of AssetResult.                                                *)
(***************************************************************************)
EXTENDS Integers, Sequences, FiniteSets, TLC

VARIABLES
    now,                 \* Date.now(), in milliseconds
    tokenListCache,      \* line 57: network -> entry
    pc,                  \* per request: the await it is suspended at
    chainIdx,            \* per request: position of the for-loop in chainProviders
    userReservesResult,  \* per request: local of fetchContractData (line 109)
    reservesResult,      \* per request: local of fetchContractData (line 114)
    response,            \* per request: local `response` of fetchTokenList (line 67)
    tokenList,           \* per request: local of fetchContractData (line 118)
    tlOutcome,           \* per request: how the last fetchTokenList call ended
    chainData,           \* per request: local of the handler (line 190)
    results,             \* per request: local of the handler (line 185)
    httpResponse,        \* per request: what res.json / res.status().send sent
    hist,                \* per request: one record per finished fetchContractData call
    callLog              \* history: the calls of fetchTokenList a lone caller made

vars == <<now, tokenListCache, pc, chainIdx, userReservesResult, reservesResult,
          response, tokenList, tlOutcome, chainData, results, httpResponse,
          hist, callLog>>

----------------------------------------------------------------------------
(* Bounds *)

NumRequests == 2
MaxTicks == 3
ConcTicks == 1
MaxScaled == 2
MaxIndex == 3
RayParts == 2

Requests == 1..NumRequests

----------------------------------------------------------------------------
(* Configuration: lines 9-54 *)

chainProviders ==
    <<"ethereum", "polygon", "avalanche", "base", "arbitrum", "optimism">>

NumChains == Len(chainProviders)

PlaceholderImage == "placeholder.png"

CACHE_DURATION == 24 * 60 * 60 * 1000

\* The clock of a lone caller advances in steps of Tick milliseconds (half a
\* cache duration); the clock of concurrent requests by a cache duration.
Tick == 12 * 60 * 60 * 1000

Null == [null |-> TRUE]

\* What the catch blocks of lines 90-93 and 174-177 receive.
Thrown == [thrown |-> TRUE]

networkMetadata ==
    [c \in {chainProviders[i] : i \in 1..NumChains} |->
        [name |-> <<"display name of", c>>, image_url |-> <<"logo of", c>>]]

----------------------------------------------------------------------------
(* Strings: String.prototype.toLowerCase / toUpperCase on the addresses and *)
(* symbols the model uses.                                                  *)

AddrLower == {"0xaa", "0xbb", "0xcc"}
AddrMixed == {"0xAA", "0xBb"}
Addresses == AddrLower \cup AddrMixed

toLowerCase(a) ==
    CASE a = "0xAA" -> "0xaa"
      [] a = "0xBb" -> "0xbb"
      [] OTHER -> a

toUpperCase(s) ==
    CASE s = "usdc" -> "USDC"
      [] s = "Dai" -> "DAI"
      [] OTHER -> s

----------------------------------------------------------------------------
(* Token lists: lines 67-82 *)

EmptyMap == [k \in {} |-> Null]

\* Map.prototype.set
MapSet(m, k, v) == [x \in (DOMAIN m) \cup {k} |-> IF x = k THEN v ELSE m[x]]

\* Map.prototype.get, with undefined as Null
MapGet(m, k) == IF k \in DOMAIN m THEN m[k] ELSE Null

\* The body of the forEach callback, lines 77-81.
TokenEntry(token) ==
    [name |-> token.name, symbol |-> token.symbol, image_url |-> token.logoURI]

\* tokenList.tokens.forEach, lines 76-82: a token without a symbol makes
\* token.symbol.toUpperCase() throw, and the map built so far is dropped.
RECURSIVE ForEachToken(_, _, _)
ForEachToken(tokens, i, tokenMap) ==
    IF i > Len(tokens) THEN tokenMap
    ELSE IF "symbol" \notin DOMAIN tokens[i] THEN Thrown
    ELSE ForEachToken(tokens, i + 1,
            MapSet(tokenMap, toUpperCase(tokens[i].symbol), TokenEntry(tokens[i])))

\* Lines 75-82: the symbol map of a parsed token list.
BuildTokenMap(tokenListDoc) == ForEachToken(tokenListDoc.tokens, 1, EmptyMap)

\* The documents the token-list URL of a network can serve.  Version 2 lists
\* the same symbol twice, in two spellings; version 3 has a token without a
\* symbol after a well-formed one.
TokenDoc(c, v) ==
    CASE v = 1 ->
        [tokens |-> << [symbol |-> "usdc", name |-> "USD Coin",
                        logoURI |-> <<c, "usdc.png">>] >>]
      [] v = 2 ->
        [tokens |-> << [symbol |-> "USDC", name |-> "USDC (old)",
                        logoURI |-> <<c, "old.png">>],
                       [symbol |-> "usdc", name |-> "USD Coin v2",
                        logoURI |-> <<c, "usdc2.png">>],
                       [symbol |-> "Dai", name |-> "Dai Stablecoin",
                        logoURI |-> <<c, "dai.png">>] >>]
      [] OTHER ->
        [tokens |-> << [symbol |-> "usdc", name |-> "USD Coin",
                        logoURI |-> <<c, "usdc.png">>],
                       [name |-> "nameless", logoURI |-> <<c, "none.png">>] >>]

GoodVersions == {1, 2}
DocVersions == {1, 2, 3}

\* Bodies that are no token list: no JSON at all, or JSON without `tokens`.
MalformedBodies == {[json |-> FALSE], [json |-> TRUE, hasTokens |-> FALSE]}

\* What `await fetch(url)` can produce (line 67): a rejection, a response that
\* is not ok, or an ok response with one of the bodies.
FetchOutcomes(c, versions, malformed) ==
    {[rejected |-> TRUE], [rejected |-> FALSE, ok |-> FALSE]}
    \cup {[rejected |-> FALSE, ok |-> TRUE, body |-> b] :
            b \in malformed
                  \cup {[json |-> TRUE, hasTokens |-> TRUE, doc |-> TokenDoc(c, v)] :
                            v \in versions}}

----------------------------------------------------------------------------
(* Decimal values: the exact value  mant * 10^(-exp)  *)

RECURSIVE Pow10(_)
Pow10(n) == IF n = 0 THEN 1 ELSE 10 * Pow10(n - 1)

DecZero == [mant |-> 0, exp |-> 0]

DecMul(a, b) == [mant |-> a.mant * b.mant, exp |-> a.exp + b.exp]

\* a + b.  Zero is added as it stands, so the exponents of two summands that
\* are aligned differ by the difference of two `decimals` at most.
DecAdd(a, b) ==
    LET e == IF a.exp > b.exp THEN a.exp ELSE b.exp
    IN IF a.mant = 0 THEN b
       ELSE IF b.mant = 0 THEN a
       ELSE [mant |-> a.mant * Pow10(e - a.exp) + b.mant * Pow10(e - b.exp),
             exp |-> e]

DecEq(a, b) ==
    LET e == IF a.exp > b.exp THEN a.exp ELSE b.exp
    IN IF a.mant = 0 \/ b.mant = 0 THEN a.mant = b.mant
       ELSE a.mant * Pow10(e - a.exp) = b.mant * Pow10(e - b.exp)

DecPositive(a) == a.mant > 0

\* Lines 96-98: formatUnits(balance, decimals) read back as a number.
normalizeBalance(balance, decimals) == [mant |-> balance, exp |-> decimals]

----------------------------------------------------------------------------
(* The data the two RPC reads return: lines 109-116 *)

\* 10^27 in the unit of the model's liquidity indexes, 10^27 / RayParts.
RAY == RayParts

DecimalsSet == {6, 8}

UserReserves ==
    [underlyingAsset : AddrLower, scaledATokenBalance : 0..MaxScaled]

\* The market reserve of an asset: its address in mixed case, its symbol.
MarketAddress == [a \in {"0xaa", "0xbb"} |-> IF a = "0xaa" THEN "0xAA" ELSE "0xBb"]
MarketSymbol == [a \in {"0xaa", "0xbb"} |-> IF a = "0xaa" THEN "USDC" ELSE "DAI"]
MarketPrice == [a \in {"0xaa", "0xbb"} |-> IF a = "0xaa" THEN 1 ELSE 3]

ReserveData(a) ==
    [underlyingAsset : {MarketAddress[a]}, symbol : {MarketSymbol[a]},
     decimals : DecimalsSet, liquidityIndex : 0..MaxIndex,
     priceInMarketReferenceCurrency : {MarketPrice[a]}]

SeqsUpTo2(S) == {<<>>} \cup {<<x>> : x \in S} \cup {<<x, y>> : x \in S, y \in S}

\* Every answer getUserReservesHumanized can give in the model.
UserReservesAnswers == SeqsUpTo2(UserReserves)

\* Every answer getReservesHumanized can give in the model: the market lists
\* neither, one or both of the two assets.
ReservesAnswers ==
    {<<>>} \cup {<<x>> : x \in ReserveData("0xaa") \cup ReserveData("0xbb")}
    \cup {<<x, y>> : x \in ReserveData("0xaa"), y \in ReserveData("0xbb")}

----------------------------------------------------------------------------
(* fetchContractData after its three awaits: lines 120-177 *)

\* Array.prototype.find, lines 124-126; undefined as Null.
FindReserveData(reservesData, reserve) ==
    LET hits == {i \in 1..Len(reservesData) :
                    toLowerCase(reservesData[i].underlyingAsset)
                        = toLowerCase(reserve.underlyingAsset)}
    IN IF hits = {} THEN Null
       ELSE reservesData[CHOOSE i \in hits : \A j \in hits : i <= j]

\* A filter that lets a zero balance through.
HasBalanceOrZero(reserve) == reserve.scaledATokenBalance >= 0

\* Line 122: the filter on the user's reserves.
HasBalance(reserve) == reserve.scaledATokenBalance > 0

\* Line 137: scaledBalance.mul(liquidityIndex).div(10^27)
RawBalance(scaledBalance, liquidityIndex) == (scaledBalance * liquidityIndex) \div RAY

\* Lines 146-150: the token's metadata, or the fallback.
TokenMetadata(tl, reserveData) ==
    IF MapGet(tl, toUpperCase(reserveData.symbol)) # Null
    THEN MapGet(tl, toUpperCase(reserveData.symbol))
    ELSE [name |-> reserveData.symbol, symbol |-> reserveData.symbol,
          image_url |-> PlaceholderImage]

\* Lines 123-162: the callback mapped over the filtered reserves.
AssetOf(reserve, reservesData, tl) ==
    LET reserveData == FindReserveData(reservesData, reserve)
    IN IF reserveData = Null THEN Null
       ELSE LET rawBalance == RawBalance(reserve.scaledATokenBalance,
                                         reserveData.liquidityIndex)
                normalizedBalance == normalizeBalance(rawBalance, reserveData.decimals)
                priceInUSD ==
                    normalizeBalance(reserveData.priceInMarketReferenceCurrency, 8)
                tokenMetadata == TokenMetadata(tl, reserveData)
            IN [underlyingAsset |-> reserve.underlyingAsset,
                symbol |-> reserveData.symbol,
                name |-> tokenMetadata.name,
                tokenBalance |-> normalizedBalance,
                priceInUSD |-> priceInUSD,
                balanceInUSD |-> DecMul(normalizedBalance, priceInUSD),
                image_url |-> tokenMetadata.image_url]

\* Lines 120-163: the array `assets`, nulls included.
AssetsOf(userReserves, reservesData, tl) ==
    LET withBalance == SelectSeq(userReserves, HasBalance)
    IN [i \in 1..Len(withBalance) |-> AssetOf(withBalance[i], reservesData, tl)]

Truthy(x) == x # Null

\* A reducer that adds the unit price where line 171 adds the balance.
ReduceStepPrice(sum, asset) ==
    IF sum = Thrown \/ asset = Null THEN Thrown
    ELSE DecAdd(sum, asset.priceInUSD)

\* One step of the reducer of line 171: reading balanceInUSD of null throws.
ReduceStep(sum, asset) ==
    IF sum = Thrown \/ asset = Null THEN Thrown
    ELSE DecAdd(sum, asset.balanceInUSD)

RECURSIVE Reduce(_, _, _)
Reduce(assets, i, sum) ==
    IF i > Len(assets) THEN sum ELSE Reduce(assets, i + 1, ReduceStep(sum, assets[i]))

\* Lines 165-177: the value fetchContractData returns once `assets` is known.
NetworkResultOf(chain, assets) ==
    LET kept == SelectSeq(assets, Truthy)
        total == Reduce(assets, 1, DecZero)
    IN IF Len(kept) > 0
       THEN IF total = Thrown THEN Null
            ELSE [network |-> chain,
                  networkName |-> networkMetadata[chain].name,
                  networkImage |-> networkMetadata[chain].image_url,
                  assets |-> kept,
                  totalBalanceUSD |-> total]
       ELSE Null

----------------------------------------------------------------------------
(* State *)

NoEntry == [present |-> FALSE]

Chain(r) == chainProviders[chainIdx[r]]

\* No call of fetchTokenList has started or finished.
NoCalls == [at |-> 0, last |-> [called |-> FALSE]]

Init ==
    /\ now = 0
    /\ tokenListCache = [c \in DOMAIN networkMetadata |-> NoEntry]
    /\ pc = [r \in Requests |-> "idle"]
    /\ chainIdx = [r \in Requests |-> 1]
    /\ userReservesResult = [r \in Requests |-> <<>>]
    /\ reservesResult = [r \in Requests |-> <<>>]
    /\ response = [r \in Requests |-> Null]
    /\ tokenList = [r \in Requests |-> EmptyMap]
    /\ tlOutcome = [r \in Requests |-> "none"]
    /\ chainData = [r \in Requests |-> Null]
    /\ results = [r \in Requests |-> <<>>]
    /\ httpResponse = [r \in Requests |-> Null]
    /\ hist = [r \in Requests |-> <<>>]
    /\ callLog = NoCalls

----------------------------------------------------------------------------
(* fetchTokenList: lines 60-94 *)

\* A check that still serves an entry that is exactly CACHE_DURATION old.
CacheHitInclusive(cachedData, time) ==
    cachedData.present /\ time - cachedData.timestamp <= CACHE_DURATION

\* Line 63: the entry may be served.
CacheHit(cachedData, time) ==
    cachedData.present /\ time - cachedData.timestamp < CACHE_DURATION

\* Lines 61-67, run by the caller's continuation: serve the cached map, or
\* start the outbound fetch.
FetchTokenListCall(r, c) ==
    /\ IF CacheHit(tokenListCache[c], now)
       THEN /\ tokenList' = [tokenList EXCEPT ![r] = tokenListCache[c].data]
            /\ tlOutcome' = [tlOutcome EXCEPT ![r] = "hit"]
            /\ pc' = [pc EXCEPT ![r] = "compute"]
       ELSE /\ tokenList' = tokenList
            /\ tlOutcome' = [tlOutcome EXCEPT ![r] = "pending"]
            /\ pc' = [pc EXCEPT ![r] = "fetch"]
    /\ UNCHANGED <<tokenListCache, response>>

\* Lines 197-200: the catch of the handler.
HandlerCatch(r) ==
    /\ httpResponse' = [httpResponse EXCEPT ![r] =
            [status |-> 500, body |-> "Internal Server Error"]]
    /\ pc' = [pc EXCEPT ![r] = "responded"]
    /\ UNCHANGED <<chainData, results>>

\* A fetchContractData without its catch: the error reaches the handler.
FetchContractDataRethrow(r) ==
    /\ hist' = [hist EXCEPT ![r] =
            Append(@, [chain |-> Chain(r), readsOk |-> FALSE, nonNull |-> FALSE])]
    /\ HandlerCatch(r)

\* Lines 174-177: the catch of fetchContractData.
FetchContractDataCatch(r) ==
    /\ chainData' = [chainData EXCEPT ![r] = Null]
    /\ pc' = [pc EXCEPT ![r] = "returned"]
    /\ hist' = [hist EXCEPT ![r] =
            Append(@, [chain |-> Chain(r), readsOk |-> FALSE, nonNull |-> FALSE])]
    /\ UNCHANGED <<results, httpResponse>>

\* A fetchTokenList without its catch: the error reaches the catch of
\* fetchContractData.
FetchTokenListRethrow(r) ==
    /\ tokenList' = tokenList
    /\ tlOutcome' = [tlOutcome EXCEPT ![r] = "failed"]
    /\ tokenListCache' = tokenListCache
    /\ FetchContractDataCatch(r)

\* A catch that caches the empty map it returns.
FetchTokenListCatchCaching(r) ==
    /\ tokenList' = [tokenList EXCEPT ![r] = EmptyMap]
    /\ tlOutcome' = [tlOutcome EXCEPT ![r] = "failed"]
    /\ pc' = [pc EXCEPT ![r] = "compute"]
    /\ tokenListCache' = [tokenListCache EXCEPT ![Chain(r)] =
            [present |-> TRUE, data |-> EmptyMap, timestamp |-> now]]
    /\ UNCHANGED <<chainData, results, httpResponse, hist>>

\* Lines 90-93: the catch of fetchTokenList; the caller resumes at line 120.
FetchTokenListCatch(r) ==
    /\ tokenList' = [tokenList EXCEPT ![r] = EmptyMap]
    /\ tlOutcome' = [tlOutcome EXCEPT ![r] = "failed"]
    /\ pc' = [pc EXCEPT ![r] = "compute"]
    /\ UNCHANGED <<tokenListCache, chainData, results, httpResponse, hist>>

\* A store that keeps the entry another request stored in the meantime.
StoreTokenMapIfAbsent(r, tokenMap) ==
    /\ tokenListCache' =
            IF tokenListCache[Chain(r)].present THEN tokenListCache
            ELSE [tokenListCache EXCEPT ![Chain(r)] =
                    [present |-> TRUE, data |-> tokenMap, timestamp |-> now]]
    /\ tokenList' = [tokenList EXCEPT ![r] = tokenMap]
    /\ tlOutcome' = [tlOutcome EXCEPT ![r] = "stored"]
    /\ pc' = [pc EXCEPT ![r] = "compute"]
    /\ UNCHANGED <<chainData, results, httpResponse, hist>>

\* Lines 84-89: store the map under the network's key and return it.
StoreTokenMap(r, tokenMap) ==
    /\ tokenListCache' = [tokenListCache EXCEPT ![Chain(r)] =
            [present |-> TRUE, data |-> tokenMap, timestamp |-> now]]
    /\ tokenList' = [tokenList EXCEPT ![r] = tokenMap]
    /\ tlOutcome' = [tlOutcome EXCEPT ![r] = "stored"]
    /\ pc' = [pc EXCEPT ![r] = "compute"]
    /\ UNCHANGED <<chainData, results, httpResponse, hist>>

\* Lines 67-70: `await fetch(url)` settles.
FetchResponse(r, versions, malformed) ==
    /\ pc[r] = "fetch"
    /\ \E o \in FetchOutcomes(Chain(r), versions, malformed) :
          IF o.rejected \/ ~o.ok
          THEN FetchTokenListCatch(r) /\ response' = response
          ELSE /\ response' = [response EXCEPT ![r] = o.body]
               /\ pc' = [pc EXCEPT ![r] = "json"]
               /\ UNCHANGED <<tokenListCache, tokenList, tlOutcome, chainData,
                              results, httpResponse, hist>>
    /\ UNCHANGED <<now, chainIdx, userReservesResult, reservesResult, callLog>>

\* Lines 72-89: `await response.json()` settles.
ResponseJson(r) ==
    /\ pc[r] = "json"
    /\ IF ~response[r].json \/ ~response[r].hasTokens
       THEN FetchTokenListCatch(r)
       ELSE IF BuildTokenMap(response[r].doc) = Thrown
            THEN FetchTokenListCatch(r)
            ELSE StoreTokenMap(r, BuildTokenMap(response[r].doc))
    /\ response' = [response EXCEPT ![r] = Null]
    /\ UNCHANGED <<now, chainIdx, userReservesResult, reservesResult, callLog>>

\* Date.now() moves on by `step` milliseconds, maxTicks times at most.
TickClock(step, maxTicks) ==
    /\ now < maxTicks * step
    /\ now' = now + step
    /\ UNCHANGED <<tokenListCache, pc, chainIdx, userReservesResult, reservesResult,
                   response, tokenList, tlOutcome, chainData, results, httpResponse,
                   hist, callLog>>

----------------------------------------------------------------------------
(* fetchContractData: lines 100-178 *)

RpcOutcomes(answers) ==
    {[ok |-> FALSE]} \cup {[ok |-> TRUE, value |-> a] : a \in answers}

\* Lines 109-112: `await getUserReservesHumanized(...)` settles.
GetUserReserves(r, answers) ==
    /\ pc[r] = "getUserReserves"
    /\ \E o \in RpcOutcomes(answers) :
          IF ~o.ok
          THEN FetchContractDataCatch(r) /\ userReservesResult' = userReservesResult
          ELSE /\ userReservesResult' = [userReservesResult EXCEPT ![r] = o.value]
               /\ pc' = [pc EXCEPT ![r] = "getReserves"]
               /\ UNCHANGED <<chainData, results, httpResponse, hist>>
    /\ UNCHANGED <<now, tokenListCache, chainIdx, reservesResult, response,
                   tokenList, tlOutcome, callLog>>

\* Lines 114-118: `await getReservesHumanized(...)` settles, and on success
\* fetchTokenList is called and runs to its first await.
GetReserves(r, answers) ==
    /\ pc[r] = "getReserves"
    /\ \E o \in RpcOutcomes(answers) :
          IF ~o.ok
          THEN /\ FetchContractDataCatch(r)
               /\ UNCHANGED <<reservesResult, tokenListCache, response, tokenList,
                              tlOutcome>>
          ELSE /\ reservesResult' = [reservesResult EXCEPT ![r] = o.value]
               /\ FetchTokenListCall(r, Chain(r))
               /\ UNCHANGED <<chainData, results, httpResponse, hist>>
    /\ UNCHANGED <<now, chainIdx, userReservesResult, callLog>>

\* What the log keeps of a call whose reads succeeded.
HistEntry(r, assets) ==
    [chain |-> Chain(r), readsOk |-> TRUE,
     resolved |-> Len(SelectSeq(assets, Truthy)),
     unmatched |-> Len(assets) - Len(SelectSeq(assets, Truthy)),
     nonNull |-> NetworkResultOf(Chain(r), assets) # Null,
     tokenListFailed |-> tlOutcome[r] = "failed"]

\* Lines 120-177: fetchTokenList has returned; fetchContractData computes its
\* result and returns it.
Compute(r) ==
    /\ pc[r] = "compute"
    /\ LET assets == AssetsOf(userReservesResult[r], reservesResult[r], tokenList[r])
       IN /\ chainData' = [chainData EXCEPT ![r] = NetworkResultOf(Chain(r), assets)]
          /\ hist' = [hist EXCEPT ![r] = Append(@, HistEntry(r, assets))]
    /\ pc' = [pc EXCEPT ![r] = "returned"]
    /\ UNCHANGED <<now, tokenListCache, chainIdx, userReservesResult, reservesResult,
                   response, tokenList, tlOutcome, results, httpResponse, callLog>>

----------------------------------------------------------------------------
(* GET /api/liquidity-rates: lines 183-201 *)

\* A handler that puts a result in front of the earlier ones.
PushResultFront(list, data) == IF data # Null THEN <<data>> \o list ELSE list

\* Lines 191-193
PushResult(list, data) == IF data # Null THEN Append(list, data) ELSE list

\* Line 188: the next entry of Object.entries(chainProviders)
NextChainIdx(i) == i + 1

\* Lines 183-190 and 100-109: a request arrives; the loop calls
\* fetchContractData for the first network, which starts its first read.
Request(r) ==
    /\ pc[r] = "idle"
    /\ results' = [results EXCEPT ![r] = <<>>]
    /\ hist' = [hist EXCEPT ![r] = <<>>]
    /\ httpResponse' = [httpResponse EXCEPT ![r] = Null]
    /\ chainIdx' = [chainIdx EXCEPT ![r] = 1]
    /\ pc' = [pc EXCEPT ![r] = "getUserReserves"]
    /\ UNCHANGED <<now, tokenListCache, userReservesResult, reservesResult, response,
                   tokenList, tlOutcome, chainData, callLog>>

\* Lines 190-196: fetchContractData has returned; the handler keeps a non-null
\* result, then starts the next network or sends the response.
Collect(r) ==
    /\ pc[r] = "returned"
    /\ results' = [results EXCEPT ![r] = PushResult(@, chainData[r])]
    /\ IF NextChainIdx(chainIdx[r]) <= NumChains
       THEN /\ chainIdx' = [chainIdx EXCEPT ![r] = NextChainIdx(@)]
            /\ pc' = [pc EXCEPT ![r] = "getUserReserves"]
            /\ httpResponse' = httpResponse
       ELSE /\ chainIdx' = chainIdx
            /\ pc' = [pc EXCEPT ![r] = "responded"]
            /\ httpResponse' = [httpResponse EXCEPT ![r] =
                    [status |-> 200, body |-> results'[r]]]
    /\ UNCHANGED <<now, tokenListCache, userReservesResult, reservesResult, response,
                   tokenList, tlOutcome, chainData, hist, callLog>>

----------------------------------------------------------------------------
(* The handler of one request, over the six networks *)

HandlerRequests == {1}

ReserveUSDC ==
    [underlyingAsset |-> "0xAA", symbol |-> "USDC", decimals |-> 6,
     liquidityIndex |-> RAY, priceInMarketReferenceCurrency |-> 1]

\* A wallet with no position, with one position, and with one position in a
\* listed reserve and one in a reserve the market does not list.
HandlerUserReserves ==
    { <<>>,
      << [underlyingAsset |-> "0xaa", scaledATokenBalance |-> 1] >>,
      << [underlyingAsset |-> "0xaa", scaledATokenBalance |-> 1],
         [underlyingAsset |-> "0xcc", scaledATokenBalance |-> 1] >> }

HandlerReserves == { <<ReserveUSDC>> }

Next ==
    \E r \in HandlerRequests :
        \/ Request(r)
        \/ GetUserReserves(r, HandlerUserReserves)
        \/ GetReserves(r, HandlerReserves)
        \/ FetchResponse(r, {1}, MalformedBodies)
        \/ ResponseJson(r)
        \/ Compute(r)
        \/ Collect(r)

Spec == Init /\ [][Next]_vars

----------------------------------------------------------------------------
(* One call of fetchContractData, over every answer of the reads *)

InitFetch ==
    /\ Init!1 /\ Init!2
    /\ pc = [r \in Requests |-> IF r = 1 THEN "getUserReserves" ELSE "idle"]
    /\ \E i \in {1, NumChains} : chainIdx = [r \in Requests |-> IF r = 1 THEN i ELSE 1]
    /\ userReservesResult = [r \in Requests |-> <<>>]
    /\ reservesResult = [r \in Requests |-> <<>>]
    /\ response = [r \in Requests |-> Null]
    /\ tokenList = [r \in Requests |-> EmptyMap]
    /\ tlOutcome = [r \in Requests |-> "none"]
    /\ chainData = [r \in Requests |-> Null]
    /\ results = [r \in Requests |-> <<>>]
    /\ httpResponse = [r \in Requests |-> Null]
    /\ hist = [r \in Requests |-> <<>>]
    /\ callLog = NoCalls

NextFetch ==
    \/ GetUserReserves(1, UserReservesAnswers)
    \/ GetReserves(1, ReservesAnswers)
    \/ FetchResponse(1, DocVersions, MalformedBodies)
    \/ ResponseJson(1)
    \/ Compute(1)

SpecFetch == InitFetch /\ [][NextFetch]_vars

----------------------------------------------------------------------------
(* fetchTokenList called again and again, with the clock running *)

CacheChainIdx == {1, 2}

\* Line 118 reached by a request for one of the networks: the reads before it
\* are left out.
EnterFetchTokenList(r) ==
    /\ pc[r] = "idle"
    /\ \E i \in CacheChainIdx :
          /\ chainIdx' = [chainIdx EXCEPT ![r] = i]
          /\ FetchTokenListCall(r, chainProviders[i])
    /\ UNCHANGED <<now, userReservesResult, reservesResult, chainData, results,
                   httpResponse, hist>>

\* The caller goes on with the map (line 120); the rest of it is left out,
\* and its locals are gone.
LeaveFetchTokenList(r) ==
    /\ pc[r] = "compute"
    /\ pc' = [pc EXCEPT ![r] = "idle"]
    /\ chainIdx' = [chainIdx EXCEPT ![r] = 1]
    /\ tokenList' = [tokenList EXCEPT ![r] = EmptyMap]
    /\ tlOutcome' = [tlOutcome EXCEPT ![r] = "none"]
    /\ UNCHANGED <<now, tokenListCache, userReservesResult, reservesResult,
                   response, chainData, results, httpResponse, hist>>

\* A lone caller: the log keeps when its running call started and what its
\* last finished call was.
CallLogged(r) ==
    /\ EnterFetchTokenList(r)
    /\ callLog' = [callLog EXCEPT !.at = now]

ReturnLogged(r) ==
    /\ LeaveFetchTokenList(r)
    /\ callLog' = [callLog EXCEPT !.last =
            [called |-> TRUE, chain |-> Chain(r), at |-> callLog.at,
             data |-> tokenList[r], outcome |-> tlOutcome[r]]]

NextCache ==
    \/ TickClock(Tick, MaxTicks)
    \/ CallLogged(1)
    \/ FetchResponse(1, DocVersions, MalformedBodies)
    \/ ResponseJson(1)
    \/ ReturnLogged(1)

SpecCache == Init /\ [][NextCache]_vars

----------------------------------------------------------------------------
(* fetchTokenList called by concurrent requests, with the clock running *)

CallFetchTokenList(r) == EnterFetchTokenList(r) /\ UNCHANGED callLog

ReturnTokenList(r) == LeaveFetchTokenList(r) /\ UNCHANGED callLog

NextConc ==
    \/ TickClock(CACHE_DURATION, ConcTicks)
    \/ \E r \in Requests :
        \/ CallFetchTokenList(r)
        \/ FetchResponse(r, DocVersions, {})
        \/ ResponseJson(r)
        \/ ReturnTokenList(r)

SpecConc == Init /\ [][NextConc]_vars

----------------------------------------------------------------------------
(* Properties of one call of fetchContractData (SpecFetch) *)

\* The call of request 1 has returned from line 165, not from a failed read.
FetchComputed ==
    /\ pc[1] = "returned"
    /\ hist[1] # <<>>
    /\ hist[1][Len(hist[1])].readsOk

IsListed(reserve, reservesData) ==
    \E i \in 1..Len(reservesData) :
        toLowerCase(reservesData[i].underlyingAsset) = toLowerCase(reserve.underlyingAsset)

\* The user's reserves with a positive scaled balance, in the order of the answer.
PositiveReserves(r) ==
    LET Positive(x) == x.scaledATokenBalance > 0
    IN SelectSeq(userReservesResult[r], Positive)

MatchedReserves(r) ==
    LET Listed(x) == IsListed(x, reservesResult[r])
    IN SelectSeq(PositiveReserves(r), Listed)

UnmatchedReserves(r) ==
    LET Unlisted(x) == ~IsListed(x, reservesResult[r])
    IN SelectSeq(PositiveReserves(r), Unlisted)

AddressesOf(list) == [i \in 1..Len(list) |-> list[i].underlyingAsset]

\* C1: when the user's positive reserves hold one that matches a market
\* reserve and one that matches none, fetchContractData returns a
\* NetworkResult whose assets are exactly the matched reserves.
C1_UnmatchedReserveIsSkipped ==
    (FetchComputed /\ MatchedReserves(1) # <<>> /\ UnmatchedReserves(1) # <<>>)
        => /\ chainData[1] # Null
           /\ AddressesOf(chainData[1].assets) = AddressesOf(MatchedReserves(1))

\* C6 as stated: every asset of a returned NetworkResult has tokenBalance > 0.
C6_EveryBalancePositive ==
    (FetchComputed /\ chainData[1] # Null)
        => \A i \in 1..Len(chainData[1].assets) :
                DecPositive(chainData[1].assets[i].tokenBalance)

\* C6 amended: an asset's tokenBalance is never negative, and it is positive
\* exactly when scaledBalance * liquidityIndex reaches 10^27; so it is
\* positive whenever the liquidity index is 10^27 or more.
C6_BalancePositiveFromOneRay ==
    (FetchComputed /\ chainData[1] # Null)
        => /\ Len(chainData[1].assets) = Len(PositiveReserves(1))
           /\ \A i \in 1..Len(chainData[1].assets) :
                LET reserve == PositiveReserves(1)[i]
                    reserveData == FindReserveData(reservesResult[1], reserve)
                    balance == chainData[1].assets[i].tokenBalance
                IN /\ reserve.scaledATokenBalance > 0
                   /\ balance.mant >= 0
                   /\ DecPositive(balance)
                        <=> reserve.scaledATokenBalance * reserveData.liquidityIndex >= RAY
                   /\ reserveData.liquidityIndex >= RAY => DecPositive(balance)

\* A returned asset whose index is below 10^27 and whose balance is 0, beside
\* one whose balance is positive.
C6_Witness ==
    /\ FetchComputed /\ chainData[1] # Null
    /\ \E i, j \in 1..Len(chainData[1].assets) :
          /\ ~DecPositive(chainData[1].assets[i].tokenBalance)
          /\ DecPositive(chainData[1].assets[j].tokenBalance)

RECURSIVE SumBalanceInUSD(_)
SumBalanceInUSD(list) ==
    IF list = <<>> THEN DecZero
    ELSE DecAdd(IF list[1] = Null THEN DecZero ELSE list[1].balanceInUSD,
                SumBalanceInUSD(Tail(list)))

\* C8: the totalBalanceUSD of a returned NetworkResult is the sum of
\* balanceInUSD over the per-reserve results before null removal, a null
\* counting 0, and the sum of balanceInUSD over the assets it lists.
C8_TotalIsSumOfBalances ==
    (FetchComputed /\ chainData[1] # Null)
        => /\ DecEq(chainData[1].totalBalanceUSD,
                    SumBalanceInUSD(AssetsOf(userReservesResult[1], reservesResult[1],
                                             tokenList[1])))
           /\ DecEq(chainData[1].totalBalanceUSD, SumBalanceInUSD(chainData[1].assets))

\* A NetworkResult with two assets of different decimals and positive balances.
C8_Witness ==
    /\ FetchComputed /\ chainData[1] # Null
    /\ Len(chainData[1].assets) = 2
    /\ chainData[1].assets[1].balanceInUSD.exp # chainData[1].assets[2].balanceInUSD.exp
    /\ \A i \in 1..2 : DecPositive(chainData[1].assets[i].balanceInUSD)
    /\ DecPositive(chainData[1].totalBalanceUSD)

\* C5: when the token-list fetch or parse fails, fetchTokenList returns an
\* empty map and fetchContractData still returns the network's result, every
\* asset of it named by its reserve symbol and shown with the placeholder
\* image; the network is returned whenever it has a matched reserve and no
\* unmatched one.
C5_TokenListFailureFallsBack ==
    (pc[1] \in {"compute", "returned"} /\ tlOutcome[1] = "failed")
        => /\ tokenList[1] = EmptyMap
           /\ pc[1] = "returned" =>
                /\ (MatchedReserves(1) # <<>> /\ UnmatchedReserves(1) = <<>>)
                        => chainData[1] # Null
                /\ chainData[1] # Null =>
                        \A i \in 1..Len(chainData[1].assets) :
                            /\ chainData[1].assets[i].name = chainData[1].assets[i].symbol
                            /\ chainData[1].assets[i].image_url = PlaceholderImage

\* A failed token-list fetch followed by a NetworkResult of two assets.
C5_Witness ==
    /\ pc[1] = "returned" /\ tlOutcome[1] = "failed"
    /\ chainData[1] # Null
    /\ Len(chainData[1].assets) = 2

----------------------------------------------------------------------------
(* Properties of the handler (Spec) *)

Responded(r) == pc[r] = "responded"

NetworksOf(list) == [i \in 1..Len(list) |-> list[i].network]

\* C2: whatever networks fail their reads, every network whose reads succeed
\* and that has a resolved asset is in the response, and the loop goes over
\* all six networks.
C2_OtherNetworksStillAppear ==
    Responded(1)
        => /\ Len(hist[1]) = NumChains
           /\ httpResponse[1].status = 200
           /\ \A i \in 1..Len(hist[1]) :
                (hist[1][i].readsOk /\ hist[1][i].resolved >= 1)
                    => \E j \in 1..Len(httpResponse[1].body) :
                            httpResponse[1].body[j].network = hist[1][i].chain

\* C3: the handler answers once all six networks were tried, never with 500,
\* and when the reads of all six failed it answers 200 with an empty array.
C3_AllFailedGivesEmpty200 ==
    Responded(1)
        => /\ Len(hist[1]) = NumChains
           /\ httpResponse[1].status # 500
           /\ (\A i \in 1..Len(hist[1]) : ~hist[1][i].readsOk)
                => httpResponse[1] = [status |-> 200, body |-> <<>>]

\* The response to a request all six networks of which failed their reads.
C3_Witness ==
    /\ Responded(1)
    /\ Len(hist[1]) = NumChains
    /\ \A i \in 1..Len(hist[1]) : ~hist[1][i].readsOk
    /\ httpResponse[1].status = 200

InFlight(r) == pc[r] \in {"getUserReserves", "getReserves", "fetch", "json", "compute"}

\* The calls of fetchContractData whose result the handler has seen.
Collected(r) ==
    IF pc[r] = "returned" THEN SubSeq(hist[r], 1, Len(hist[r]) - 1) ELSE hist[r]

ChainsWithResult(log) ==
    LET NonNull(e) == e.nonNull
        kept == SelectSeq(log, NonNull)
    IN [i \in 1..Len(kept) |-> kept[i].chain]

\* C7: the networks are taken one at a time in configuration order; the
\* network with a call outstanding is the one after all finished ones; and
\* the results, and the response, list in that order the networks whose
\* result was not null.
C7_OneNetworkAtATimeInOrder ==
    /\ Len(hist[1]) <= NumChains
    /\ \A i \in 1..Len(hist[1]) : hist[1][i].chain = chainProviders[i]
    /\ InFlight(1) => chainIdx[1] = Len(hist[1]) + 1
    /\ pc[1] = "returned" => chainIdx[1] = Len(hist[1])
    /\ NetworksOf(results[1]) = ChainsWithResult(Collected(1))
    /\ Responded(1) =>
            /\ Len(hist[1]) = NumChains
            /\ NetworksOf(httpResponse[1].body) = ChainsWithResult(hist[1])

\* A response that lists three networks and leaves out the first.
C7_Witness ==
    /\ Responded(1)
    /\ Len(httpResponse[1].body) = 3
    /\ ~hist[1][1].nonNull
    /\ hist[1][2].nonNull

----------------------------------------------------------------------------
(* Properties of fetchTokenList called by a lone caller (SpecCache) *)

CallStep(r) == pc[r] = "idle" /\ pc'[r] # "idle"

CalledChain(r) == chainProviders[chainIdx'[r]]

Age(entry) == now - entry.timestamp

\* C4 as stated: a call less than 24 hours after the previous call for the
\* same network returns what that call returned, without an outbound fetch;
\* a call that finds an entry 24 hours old or older fetches.
C4_SecondCallWithinDayIsServed ==
    [][CallStep(1) =>
        /\ (/\ callLog.last.called
            /\ callLog.last.chain = CalledChain(1)
            /\ now - callLog.last.at < CACHE_DURATION)
                => /\ pc'[1] = "compute"
                   /\ tokenList'[1] = callLog.last.data
        /\ (/\ tokenListCache[CalledChain(1)].present
            /\ Age(tokenListCache[CalledChain(1)]) >= CACHE_DURATION)
                => pc'[1] = "fetch"
      ]_vars

\* C4 amended: the 24 hours count from the moment the entry was stored.  A
\* call that finds an entry stored less than 24 hours ago returns its map
\* without an outbound fetch and leaves the cache alone; a call that finds no
\* entry, or one 24 hours old or older, fetches.  So a call less than 24
\* hours after a call that fetched and stored the list returns the same map.
C4_FreshEntryIsServed ==
    [][CallStep(1) =>
        LET entry == tokenListCache[CalledChain(1)]
        IN /\ (entry.present /\ Age(entry) < CACHE_DURATION)
                => /\ pc'[1] = "compute"
                   /\ tokenList'[1] = entry.data
                   /\ tokenListCache' = tokenListCache
           /\ (~entry.present \/ Age(entry) >= CACHE_DURATION)
                => /\ pc'[1] = "fetch"
                   /\ tokenListCache' = tokenListCache
           /\ (/\ callLog.last.called
               /\ callLog.last.chain = CalledChain(1)
               /\ callLog.last.outcome = "stored"
               /\ now - callLog.last.at < CACHE_DURATION)
                => /\ pc'[1] = "compute"
                   /\ tokenList'[1] = callLog.last.data
      ]_vars

\* A call served from the cache, less than 24 hours after the call that
\* stored the entry.
C4_Witness ==
    /\ pc[1] = "compute" /\ tlOutcome[1] = "hit"
    /\ callLog.last.called
    /\ callLog.last.chain = Chain(1)
    /\ callLog.last.outcome = "stored"
    /\ callLog.at > callLog.last.at
    /\ tokenList[1] = callLog.last.data

FailStep(r) == tlOutcome[r] = "pending" /\ tlOutcome'[r] = "failed"

----------------------------------------------------------------------------
(* Properties of fetchTokenList called by concurrent requests (SpecConc) *)

\* The map a document stands for: the upper-case symbols of its tokens, each
\* mapped to the entry of the last token of that symbol.
MapOf(doc) ==
    LET tokens == doc.tokens
        LastOf(k) == CHOOSE i \in 1..Len(tokens) :
                        /\ toUpperCase(tokens[i].symbol) = k
                        /\ \A j \in 1..Len(tokens) :
                                toUpperCase(tokens[j].symbol) = k => j <= i
    IN [k \in {toUpperCase(tokens[i].symbol) : i \in 1..Len(tokens)} |->
            [name |-> tokens[LastOf(k)].name,
             symbol |-> tokens[LastOf(k)].symbol,
             image_url |-> tokens[LastOf(k)].logoURI]]

\* The complete maps of the well-formed token lists of each network.
CompleteMaps ==
    [c \in DOMAIN networkMetadata |-> {MapOf(TokenDoc(c, v)) : v \in GoodVersions}]

IsTokenMapOfChain(m, c) == m \in CompleteMaps[c]

CacheConsistent ==
    /\ \A c \in DOMAIN tokenListCache :
            tokenListCache[c].present
                => /\ IsTokenMapOfChain(tokenListCache[c].data, c)
                   /\ tokenListCache[c].timestamp <= now
    /\ \A r \in Requests :
            (pc[r] = "compute" /\ tlOutcome[r] \in {"hit", "stored"})
                => IsTokenMapOfChain(tokenList[r], Chain(r))

\* C9: with requests interleaving at their awaits, an entry of the cache is
\* absent or holds the complete map of one fetched token list of its network
\* and the time it was stored; a request served from the cache gets such a
\* complete map; every request that misses fetches for itself; a store
\* replaces whatever entry is there by the storing request's own map and the
\* current time; an entry is never removed and its timestamp never decreases.
C9_CacheConsistentUnderInterleaving ==
    [][/\ CacheConsistent /\ CacheConsistent'
       /\ \A c \in DOMAIN tokenListCache :
            tokenListCache[c].present
                => /\ tokenListCache'[c].present
                   /\ tokenListCache'[c].timestamp >= tokenListCache[c].timestamp
       /\ \A r \in Requests :
            /\ (CallStep(r) /\ ~(/\ tokenListCache[CalledChain(r)].present
                                 /\ Age(tokenListCache[CalledChain(r)]) < CACHE_DURATION))
                    => pc'[r] = "fetch"
            /\ (tlOutcome[r] = "pending" /\ tlOutcome'[r] = "stored")
                    => /\ tokenList'[r] = MapOf(response[r].doc)
                       /\ tokenListCache'[Chain(r)] =
                            [present |-> TRUE, data |-> tokenList'[r], timestamp |-> now]
      ]_vars

\* Two requests missed together for one network, each fetched its own
\* document, and the cache holds the map of the one that stored last.
C9_Witness ==
    \E r, q \in Requests :
        /\ r # q /\ Chain(r) = Chain(q)
        /\ pc[r] = "compute" /\ tlOutcome[r] = "stored"
        /\ pc[q] = "compute" /\ tlOutcome[q] = "stored"
        /\ tokenList[r] # tokenList[q]
        /\ tokenListCache[Chain(q)].data = tokenList[q]

====
